---- MODULE Spec2Model ----
(***************************************************************************)
(* Model of the inference-time post-processing helpers of                  *)
(* model/utils/net_utils.py: box_filter, grasp_inference, rel_prob_to_mat, *)
(* create_mrt, find_all_paths and find_shortest_path.                      *)
(*                                                                         *)
(* The module is stateless: every call works on fresh inputs.  The state   *)
(* machine therefore starts in "idle", picks one entry point with inputs   *)
(* drawn from small sets, and records the inputs and the returned values.  *)
(* The relational functions are chained the way their callers chain them:  *)
(* rel_prob_to_mat -> create_mrt -> find_shortest_path.                    *)
(*                                                                         *)
(* Object, row and column indices are 0-based as in the Python code;       *)
(* arrays are functions over 0..n-1.  Python lists built by append (paths, *)
(* adjacency lists) are TLA+ sequences.                                    *)
(***************************************************************************)
EXTENDS Integers, Sequences, FiniteSets, TLC

VARIABLES pc, rel_cls_prob, num_obj, rel_mat, mrt, t_node, paths, best_path,
          bf_in, bf_out, gi_in, gi_out

vars == <<pc, rel_cls_prob, num_obj, rel_mat, mrt, t_node, paths, best_path,
          bf_in, bf_out, gi_in, gi_out>>

(***************************************************************************)
(* Bounds                                                                  *)
(***************************************************************************)
\* largest number of detected objects handed to rel_prob_to_mat
MaxObj == 3
\* modelled depth at which the interpreter stops a runaway recursion
RecursionLimit == 8

(***************************************************************************)
(* Generic helpers for 0-based arrays                                      *)
(***************************************************************************)
Range(s) == {s[i] : i \in DOMAIN s}

\* a Python list / 1-D array of length n as a function over 0..n-1
Arr(n, S) == [0..(n - 1) -> S]

ALen(a) == Cardinality(DOMAIN a)

SetMax(S) == CHOOSE m \in S : \A x \in S : x <= m

(***************************************************************************)
(* rel_prob_to_mat                                                         *)
(***************************************************************************)
\* relation labels (cfg.VMRN.FATHER, cfg.VMRN.CHILD; 3 is "no relation")
FATHER == 1
CHILD == 2
NO_RELATION == 3

\* torch.argmax(row): 0-based index of the first maximal entry
Argmax(row) ==
    CHOOSE c \in DOMAIN row :
        /\ \A d \in DOMAIN row : row[d] <= row[c]
        /\ \A d \in DOMAIN row : d < c => row[d] < row[c]

\* rel = torch.argmax(rel_cls_prob, dim = 1) + 1
RelLabels(prob) == [k \in DOMAIN prob |-> Argmax(prob[k]) + 1]

\* np.zeros((num_obj, num_obj))
Zeros(n) == [i \in 0..(n - 1) |-> [j \in 0..(n - 1) |-> 0]]

MatSet(m, i, j, v) == [m EXCEPT ![i] = [m[i] EXCEPT ![j] = v]]

\* mutant: the row counter is never advanced
NextCounterStuck(counter) == counter

\* counter += 1
NextCounter(counter) == counter + 1

\* first pair of loops: for o1 in range(n): for o2 in range(o1 + 1, n):
\*     rel_mat[o1, o2] = rel[counter]; counter += 1
\* The loop state is (o1, o2, counter, rel_mat).
RECURSIVE FillUpper(_, _, _, _, _, _)
FillUpper(rel, n, o1, o2, counter, m) ==
    IF o1 >= n THEN m
    ELSE IF o2 >= n THEN FillUpper(rel, n, o1 + 1, o1 + 2, counter, m)
    ELSE FillUpper(rel, n, o1, o2 + 1, NextCounter(counter),
                   MatSet(m, o1, o2, rel[counter]))

\* `assert RuntimeError` asserts a class object, which is always truthy:
\* the assertion passes and the loop goes on
AssertRuntimeErrorFails == FALSE

\* mutant: the lower triangle copies the upper entry without complementing it
MirrorValueCopy(u) == u

\* value written to rel_mat[o1, o2] from u = rel_mat[o2, o1], for u in 1..3
MirrorValue(u) == IF u = 3 THEN u ELSE 3 - u

\* second pair of loops: for o1 in range(n): for o2 in range(o1):
\* The loop state is (o1, o2, rel_mat, raised).
RECURSIVE FillLower(_, _, _, _)
FillLower(n, o1, o2, m) ==
    IF o1 >= n THEN [raised |-> FALSE, mat |-> m]
    ELSE IF o2 >= o1 THEN FillLower(n, o1 + 1, 0, m)
    ELSE IF m[o2][o1] = 3 \/ m[o2][o1] = 1 \/ m[o2][o1] = 2
         THEN FillLower(n, o1, o2 + 1, MatSet(m, o1, o2, MirrorValue(m[o2][o1])))
         ELSE IF AssertRuntimeErrorFails
              THEN [raised |-> TRUE, mat |-> m]
              ELSE FillLower(n, o1, o2 + 1, m)

\* the value np.array([]) returned for an empty score tensor
EmptyArray == <<>>

\* rel_prob_to_mat(rel_cls_prob, num_obj): [raised, mat]
rel_prob_to_mat(prob, n) ==
    IF ALen(prob) = 0
    THEN [raised |-> FALSE, mat |-> EmptyArray]
    ELSE FillLower(n, 0, 0, FillUpper(RelLabels(prob), n, 0, 1, 0, Zeros(n)))

(***************************************************************************)
(* networkx.DiGraph as used by create_mrt: nodes and successors are kept   *)
(* in insertion order, and mrt.edges iterates node by node over each       *)
(* node's successors.                                                      *)
(***************************************************************************)
\* nx.DiGraph()
EmptyGraph == [node |-> <<>>, adj |-> <<>>]

HasNode(G, n) == n \in Range(G.node)

\* mrt.add_node(n)
add_node(G, n) ==
    IF HasNode(G, n) THEN G
    ELSE [node |-> Append(G.node, n),
          adj |-> [x \in (DOMAIN G.adj) \cup {n} |->
                      IF x = n THEN <<>> ELSE G.adj[x]]]

\* mrt.add_edge(u, v): both ends are added when missing; a repeated edge is
\* stored once
add_edge(G, u, v) ==
    LET H == add_node(add_node(G, u), v)
    IN  IF v \in Range(H.adj[u]) THEN H
        ELSE [H EXCEPT !.adj[u] = Append(H.adj[u], v)]

\* list(mrt.edges): <<u, v>> pairs in iteration order
RECURSIVE EdgesFrom(_, _)
EdgesFrom(G, k) ==
    IF k > Len(G.node) THEN <<>>
    ELSE LET u == G.node[k]
         IN  [i \in 1..Len(G.adj[u]) |-> <<u, G.adj[u][i]>>] \o EdgesFrom(G, k + 1)

Edges(G) == EdgesFrom(G, 1)

EdgeSet(G) == Range(Edges(G))

NodeSet(G) == Range(G.node)

(***************************************************************************)
(* create_mrt                                                              *)
(***************************************************************************)
\* np.where(rel_mat > 0)[0]: the row indices that hold a positive entry
PositiveRows(m) == {i \in DOMAIN m : \E j \in DOMAIN m[i] : m[i][j] > 0}

\* mutant: the CHILD branch adds the edge in the FATHER direction
ChildEdgeFlipped(G, obj1, obj2) == add_edge(G, obj2, obj1)

\* if rel_mat[obj1, obj2] == cfg.VMRN.CHILD: mrt.add_edge(obj1, obj2)
ChildEdge(G, obj1, obj2) == add_edge(G, obj1, obj2)

\* mutant: the FATHER branch adds the edge in the CHILD direction
FatherEdgeFlipped(G, obj1, obj2) == add_edge(G, obj1, obj2)

\* if rel_mat[obj1, obj2] == cfg.VMRN.FATHER: mrt.add_edge(obj2, obj1)
FatherEdge(G, obj1, obj2) == add_edge(G, obj2, obj1)

\* body of the inner loop for one (obj1, obj2)
RelEdges(G, m, obj1, obj2) ==
    LET G1 == IF m[obj1][obj2] = FATHER THEN FatherEdge(G, obj1, obj2) ELSE G
    IN  IF m[obj1][obj2] = CHILD THEN ChildEdge(G1, obj1, obj2) ELSE G1

\* for obj1 in xrange(node_num): mrt.add_node(obj1);
\*     for obj2 in xrange(obj1): ...
RECURSIVE MrtLoop(_, _, _, _, _)
MrtLoop(m, node_num, obj1, obj2, G) ==
    IF obj1 >= node_num THEN G
    ELSE IF obj2 >= obj1
         THEN IF obj1 + 1 >= node_num THEN G
              ELSE MrtLoop(m, node_num, obj1 + 1, 0, add_node(G, obj1 + 1))
         ELSE MrtLoop(m, node_num, obj1, obj2 + 1, RelEdges(G, m, obj1, obj2))

\* create_mrt(rel_mat): [raised, g]; np.max of an empty index array raises
create_mrt(m) ==
    IF PositiveRows(m) = {}
    THEN [raised |-> "ValueError", g |-> EmptyGraph]
    ELSE [raised |-> "none",
          g |-> MrtLoop(m, SetMax(PositiveRows(m)) + 1, 0, 0,
                        add_node(EmptyGraph, 0))]

(***************************************************************************)
(* find_all_paths, find_shortest_path                                      *)
(***************************************************************************)
\* mutant: the target is attached in front of each sub path
AttachTargetInFront(ps, t) == [i \in 1..Len(ps) |-> <<t>> \o ps[i]]

\* for i in xrange(len(paths)): paths[i] += [t_node, ]
AttachTarget(ps, t) == [i \in 1..Len(ps) |-> Append(ps[i], t)]

RECURSIVE find_all_paths(_, _, _)
RECURSIVE CollectSubPaths(_, _, _, _, _)

\* for e in mrt.edges: if t_node == e[1]: paths += find_all_paths(mrt, e[0])
\* k is the position in the edge list, acc the paths collected so far; an
\* exception raised by a recursive call ends the loop
CollectSubPaths(G, t, depth, k, acc) ==
    IF k > Len(Edges(G)) THEN [raised |-> "none", paths |-> acc]
    ELSE LET e == Edges(G)[k]
         IN  IF t = e[2]
             THEN LET sub == find_all_paths(G, e[1], depth + 1)
                  IN  IF sub.raised # "none" THEN sub
                      ELSE CollectSubPaths(G, t, depth, k + 1, acc \o sub.paths)
             ELSE CollectSubPaths(G, t, depth, k + 1, acc)

\* find_all_paths(mrt, t_node) entered at call depth `depth`: [raised, paths]
find_all_paths(G, t, depth) ==
    IF depth > RecursionLimit
    THEN [raised |-> "RecursionError", paths |-> <<>>]
    ELSE IF ~HasNode(G, t)
    THEN [raised |-> "AssertionError", paths |-> <<>>]
    ELSE LET r == CollectSubPaths(G, t, depth, 1, <<>>)
         IN  IF r.raised # "none" THEN r
             ELSE IF Len(r.paths) = 0
                  THEN [raised |-> "none", paths |-> <<(<<t>>)>>]
                  ELSE [raised |-> "none", paths |-> AttachTarget(r.paths, t)]

\* p_lenth = np.inf
Inf == [inf |-> TRUE, val |-> 0]

\* mutant: the comparison is turned around
LenGreater(p, p_lenth) == ~p_lenth.inf /\ Len(p) > p_lenth.val

\* len(p) < p_lenth
LenLess(p, p_lenth) == p_lenth.inf \/ Len(p) < p_lenth.val

\* best_path = None
None == [none |-> TRUE, path |-> <<>>]

\* for p in paths: if len(p) < p_lenth: best_path = p
\* (p_lenth is not assigned in the loop)
RECURSIVE BestLoop(_, _, _, _)
BestLoop(ps, k, p_lenth, best) ==
    IF k > Len(ps) THEN best
    ELSE IF LenLess(ps[k], p_lenth)
         THEN BestLoop(ps, k + 1, p_lenth, [none |-> FALSE, path |-> ps[k]])
         ELSE BestLoop(ps, k + 1, p_lenth, best)

\* find_shortest_path(mrt, t_node): [raised, best]
find_shortest_path(G, t) ==
    LET r == find_all_paths(G, t, 1)
    IN  IF r.raised # "none" THEN [raised |-> r.raised, best |-> None]
        ELSE [raised |-> "none", best |-> BestLoop(r.paths, 1, Inf, None)]

(***************************************************************************)
(* Inputs of the relational functions                                      *)
(***************************************************************************)
\* number of relation classes scored by the classifier (N x 3 scores)
NumRelCls == 3

\* score rows of a 3-way classifier: one clear winner per class, and ties
ProbRows3 == { [c \in 0..2 |-> IF c = w THEN 2 ELSE 0] : w \in 0..2 }
             \cup { [c \in 0..2 |-> IF c = 0 THEN 0 ELSE 1] }

\* score rows of a classifier with one column too many
ProbRows4 == { [c \in 0..3 |-> IF c = w THEN 2 ELSE 0] : w \in 0..3 }

ProbRows(ncols) == IF ncols = NumRelCls THEN ProbRows3 ELSE ProbRows4

\* rows of rel_cls_prob for n objects: one per unordered pair
NumPairs(n) == (n * (n - 1)) \div 2

(***************************************************************************)
(* box_filter                                                              *)
(***************************************************************************)
\* bounds on the candidates handed to box_filter
MaxCand == 3
MaxScore == 2

\* overlap threshold cfg.TEST.COMMON.NMS as the fraction NmsNum / NmsDen
NmsNum == 3
NmsDen == 10

Min2(a, b) == IF a < b THEN a ELSE b
Max2(a, b) == IF a > b THEN a ELSE b

\* boxes are <<x1, y1, x2, y2>>
Area(b) == (b[3] - b[1]) * (b[4] - b[2])

Inter(a, b) ==
    Max2(0, Min2(a[3], b[3]) - Max2(a[1], b[1]))
      * Max2(0, Min2(a[4], b[4]) - Max2(a[2], b[2]))

\* IoU(a, b) > num / den
IoUAbove(a, b, num, den) ==
    Inter(a, b) * den > num * (Area(a) + Area(b) - Inter(a, b))

\* nms(boxes, scores, thresh): greedy suppression.  `left` is the set of
\* positions not yet kept or suppressed; the highest-scored one (the first
\* of them on a tie) is kept and everything overlapping it above the
\* threshold is dropped.  Returns the kept positions in pick order.
RECURSIVE NmsLoop(_, _, _, _)
NmsLoop(boxes, scores, left, keep) ==
    IF left = {} THEN keep
    ELSE LET top == CHOOSE c \in left :
                        \A d \in left :
                            scores[d] < scores[c] \/ (scores[d] = scores[c] /\ c <= d)
         IN  NmsLoop(boxes, scores,
                     {d \in left \ {top} :
                          ~IoUAbove(boxes[top], boxes[d], NmsNum, NmsDen)},
                     [i \in 0..ALen(keep) |-> IF i < ALen(keep) THEN keep[i] ELSE top])

nms(boxes, scores) == NmsLoop(boxes, scores, DOMAIN boxes, <<>>)

\* mutant: candidates scoring exactly the threshold pass
AboveOrEqual(score, thresh) == score >= thresh

\* box_scores > thresh
Above(score, thresh) == score > thresh

\* torch.nonzero(box_scores > thresh).view(-1): the passing positions in
\* increasing order
Passing(box_scores, thresh) == {i \in DOMAIN box_scores : Above(box_scores[i], thresh)}

RECURSIVE Ascending(_)
Ascending(S) ==
    IF S = {} THEN <<>>
    ELSE LET m == SetMax(S)
             rest == Ascending(S \ {m})
         IN  [i \in 0..ALen(rest) |-> IF i < ALen(rest) THEN rest[i] ELSE m]

Nonzero(box_scores, thresh) == Ascending(Passing(box_scores, thresh))

\* a[index] for an index array
Take(a, index) == [i \in DOMAIN index |-> a[index[i]]]

\* the index arrays torch.sort(cls_scores, 0, True) can return: the sort is
\* not stable, so equal scores may come out in any order
SortOrders(cls_scores) ==
    {o \in [DOMAIN cls_scores -> DOMAIN cls_scores] :
        /\ \A i, j \in DOMAIN o : i # j => o[i] # o[j]
        /\ \A i, j \in DOMAIN o : i < j => cls_scores[o[i]] >= cls_scores[o[j]]}

\* torch.cat((cls_boxes, cls_scores.unsqueeze(1)), 1): rows box ++ <<score>>
CatScores(cls_boxes, cls_scores) ==
    [i \in DOMAIN cls_boxes |-> Append(cls_boxes[i], cls_scores[i])]

\* column slices of a 2-D array whose rows are sequences
Cols(a, lo, hi) == [i \in DOMAIN a |-> SubSeq(a[i], lo + 1, hi)]
Col(a, c) == [i \in DOMAIN a |-> a[i][c + 1]]
LastCol(a) == [i \in DOMAIN a |-> a[i][Len(a[i])]]
ButLastCol(a) == [i \in DOMAIN a |-> SubSeq(a[i], 1, Len(a[i]) - 1)]

\* mutant: the kept positions are not mapped back through the sort order
KeptOrderUnmapped(order, keep) == keep

\* order = order[keep.view(-1).long()]
KeptOrder(order, keep) == Take(order, keep)

\* mutant: the positions among the survivors are returned as they are
OriginalIndsUnmapped(inds, order) == order

\* (inds.cpu().numpy())[order]
OriginalInds(inds, order) == Take(inds, order)

\* box_filter(box, box_scores, thresh, use_nms) where `order` is the index
\* array torch.sort returned: [dets, scores, idx]
box_filter(box, box_scores, thresh, use_nms, order) ==
    LET inds == Nonzero(box_scores, thresh)
    IN  IF ALen(inds) > 0
        THEN LET cls_scores == Take(box_scores, inds)
                 cls_boxes == Take(box, inds)
             IN  IF use_nms
                 THEN LET cls_dets == Take(CatScores(cls_boxes, cls_scores), order)
                          keep == nms(Cols(cls_dets, 0, 4), Col(cls_dets, 4))
                      IN  [dets |-> ButLastCol(Take(cls_dets, keep)),
                           scores |-> LastCol(Take(cls_dets, keep)),
                           idx |-> OriginalInds(inds, KeptOrder(order, keep))]
                 ELSE [dets |-> Take(cls_boxes, order),
                       scores |-> Take(cls_scores, order),
                       idx |-> OriginalInds(inds, order)]
        ELSE [dets |-> <<>>, scores |-> <<>>, idx |-> OriginalInds(inds, <<>>)]

\* the sort orders box_filter can see for these inputs
FilterOrders(box_scores, thresh) ==
    SortOrders(Take(box_scores, Nonzero(box_scores, thresh)))

\* candidate boxes: A and B overlap above the threshold, B and C too, A and C
\* do not
BoxSet == { <<0, 0, 4, 4>>, <<1, 0, 5, 4>>, <<3, 0, 7, 4>> }

(***************************************************************************)
(* grasp_inference, from the decoded corner points on                      *)
(***************************************************************************)
\* bounds on the grasps handed to grasp_inference
MaxGrasp == 2
MaxTopN == 2

\* scores are in tenths: thresh = 0.5 when topN is not given
HalfScore == 5

\* a coordinate divided by a scale factor, kept as the fraction <<c, s>>
Div(c, scaler) == <<c, scaler>>

\* box_recover_scale_torch on rows of points: box[:, 0::2] /= x_scaler,
\* box[:, 1::2] /= y_scaler (columns are 0-based, sequences 1-based)
box_recover_scale_torch(box, x_scaler, y_scaler) ==
    [i \in DOMAIN box |->
        [c \in 1..Len(box[i]) |->
            IF (c - 1) % 2 = 0 THEN Div(box[i][c], x_scaler)
                               ELSE Div(box[i][c], y_scaler)]]

\* rows left as they are when recover_imscale is false
Unscaled(box) == [i \in DOMAIN box |-> [c \in 1..Len(box[i]) |-> Div(box[i][c], 1)]]

\* one row of imshape: (im_info[1], im_info[0]) tiled over the 4 corners
ImShapeRow(im_info) ==
    [c \in 1..8 |-> IF (c - 1) % 2 = 0 THEN im_info[2] ELSE im_info[1]]

\* keep = (((pred_boxes > imshape) | (pred_boxes < 0)).sum(-1) == 0)
KeepMask(pred_boxes, im_info) ==
    [i \in DOMAIN pred_boxes |->
        Cardinality({c \in 1..8 : pred_boxes[i][c] > ImShapeRow(im_info)[c]
                                    \/ pred_boxes[i][c] < 0}) = 0]

\* a[mask] for a boolean mask
Masked(a, mask) == Take(a, Ascending({i \in DOMAIN mask : mask[i]}))

\* grasps[:topN]
FirstRows(a, k) == [i \in {j \in DOMAIN a : j < k} |-> a[i]]

\* thresh of grasp_inference
GraspThresh(topN) == IF topN = 0 THEN HalfScore ELSE 0

\* grasp_inference after grasp_decode / labels2points: pred_boxes are the
\* rows of 8 corner coordinates, cls_prob the rows <<negative, positive>>,
\* im_info = <<height, width, y scale, x scale>>, topN = 0 stands for False;
\* `order` is the index array torch.sort returned inside box_filter.
\* A single surviving grasp is squeezed to a 1-D tensor and scores[:, 1]
\* then raises IndexError.
grasp_inference(pred_boxes, cls_prob, im_info, topN, recover_imscale, order) ==
    LET keep == KeepMask(pred_boxes, im_info)
        boxes == Masked(pred_boxes, keep)
        scores == Masked(cls_prob, keep)
    IN  IF ALen(boxes) = 1
        THEN [raised |-> "IndexError", grasps |-> <<>>]
        ELSE LET scaled == IF recover_imscale
                           THEN box_recover_scale_torch(boxes, im_info[4], im_info[3])
                           ELSE Unscaled(boxes)
                 f == box_filter(scaled, Col(scores, 1), GraspThresh(topN), FALSE, order)
                 grasps == CatScores(f.dets, f.scores)
             IN  [raised |-> "none",
                  grasps |-> IF topN # 0 THEN FirstRows(grasps, topN) ELSE grasps]

\* the sort orders box_filter can see inside grasp_inference
GraspOrders(pred_boxes, cls_prob, im_info, topN) ==
    FilterOrders(Col(Masked(cls_prob, KeepMask(pred_boxes, im_info)), 1),
                 GraspThresh(topN))

\* image of height 3 and width 4, with and without rescaling
ImInfos == { <<3, 4, 1, 1>>, <<3, 4, 2, 2>> }

\* corner rows: inside; a corner on x = 0; a corner on x = width; beyond the
\* width; a negative x; a corner on y = height
GraspPolys ==
    { <<1, 1, 3, 1, 3, 2, 1, 2>>, <<0, 1, 3, 1, 3, 2, 0, 2>>,
      <<1, 1, 4, 1, 4, 2, 1, 2>>, <<1, 1, 5, 1, 5, 2, 1, 2>>,
      <<-1, 1, 3, 1, 3, 2, -1, 2>>, <<1, 1, 3, 1, 3, 3, 1, 3>> }

\* <<negative, positive>> score rows, in tenths
GraspProbs == { <<10, 0>>, <<5, 5>>, <<4, 6>> }

(***************************************************************************)
(* The state machine                                                       *)
(***************************************************************************)
NotCalled == [raised |-> "not called"]

Init ==
    /\ pc = "idle"
    /\ rel_cls_prob = <<>>
    /\ num_obj = 0
    /\ rel_mat = NotCalled
    /\ mrt = NotCalled
    /\ t_node = 0
    /\ paths = NotCalled
    /\ best_path = NotCalled
    /\ bf_in = NotCalled
    /\ bf_out = NotCalled
    /\ gi_in = NotCalled
    /\ gi_out = NotCalled

\* a caller hands a score tensor with one row per unordered pair to
\* rel_prob_to_mat
RelProbToMat ==
    /\ pc = "idle"
    /\ \E n \in 1..MaxObj, ncols \in {NumRelCls, NumRelCls + 1} :
         \E prob \in Arr(NumPairs(n), ProbRows(ncols)) :
            /\ rel_cls_prob' = prob
            /\ num_obj' = n
            /\ rel_mat' = rel_prob_to_mat(prob, n)
    /\ pc' = "rel_mat"
    /\ UNCHANGED <<mrt, t_node, paths, best_path, bf_in, bf_out, gi_in, gi_out>>

\* the returned matrix is handed to create_mrt
CreateMrt ==
    /\ pc = "rel_mat"
    /\ ~rel_mat.raised
    /\ mrt' = create_mrt(rel_mat.mat)
    /\ pc' = "mrt"
    /\ UNCHANGED <<rel_cls_prob, num_obj, rel_mat, t_node, paths, best_path,
                   bf_in, bf_out, gi_in, gi_out>>

\* the tree is searched for a target; find_shortest_path calls
\* find_all_paths, whose result is recorded in `paths`
FindShortestPath ==
    /\ pc = "mrt"
    /\ mrt.raised = "none"
    /\ \E t \in 0..MaxObj :
         /\ t_node' = t
         /\ paths' = find_all_paths(mrt.g, t, 1)
         /\ best_path' = find_shortest_path(mrt.g, t)
    /\ pc' = "path"
    /\ UNCHANGED <<rel_cls_prob, num_obj, rel_mat, mrt, bf_in, bf_out, gi_in, gi_out>>

BoxFilter ==
    /\ pc = "idle"
    /\ \E n \in 0..MaxCand, thresh \in 0..MaxScore, use_nms \in BOOLEAN :
         \E box \in Arr(n, BoxSet), box_scores \in Arr(n, 0..MaxScore) :
            \E order \in FilterOrders(box_scores, thresh) :
               /\ bf_in' = [box |-> box, box_scores |-> box_scores,
                            thresh |-> thresh, use_nms |-> use_nms]
               /\ bf_out' = box_filter(box, box_scores, thresh, use_nms, order)
    /\ pc' = "box_filter"
    /\ UNCHANGED <<rel_cls_prob, num_obj, rel_mat, mrt, t_node, paths, best_path,
                   gi_in, gi_out>>

GraspInference ==
    /\ pc = "idle"
    /\ \E n \in 0..MaxGrasp, im_info \in ImInfos, topN \in 0..MaxTopN,
          recover_imscale \in BOOLEAN :
         \E pred_boxes \in Arr(n, GraspPolys), cls_prob \in Arr(n, GraspProbs) :
            \E order \in GraspOrders(pred_boxes, cls_prob, im_info, topN) :
               /\ gi_in' = [pred_boxes |-> pred_boxes, cls_prob |-> cls_prob,
                            im_info |-> im_info, topN |-> topN,
                            recover_imscale |-> recover_imscale]
               /\ gi_out' = grasp_inference(pred_boxes, cls_prob, im_info, topN,
                                            recover_imscale, order)
    /\ pc' = "grasp"
    /\ UNCHANGED <<rel_cls_prob, num_obj, rel_mat, mrt, t_node, paths, best_path,
                   bf_in, bf_out>>

Next ==
    \/ RelProbToMat
    \/ CreateMrt
    \/ FindShortestPath
    \/ BoxFilter
    \/ GraspInference

Spec == Init /\ [][Next]_vars

(***************************************************************************)
(* Properties                                                              *)
(***************************************************************************)
\* C1: the path find_shortest_path returns has the fewest nodes among the
\* paths find_all_paths enumerates for the same tree and target: no
\* enumerated path is strictly shorter.
C1_ShortestIsMinimal ==
    (pc = "path" /\ best_path.raised = "none") =>
        /\ ~best_path.best.none
        /\ \A i \in 1..Len(paths.paths) :
               Len(best_path.best.path) <= Len(paths.paths[i])

\* the relation matrix of the chain scenario: 0 PARENT of 1, 1 PARENT of 2,
\* (0, 2) unrelated, lower triangle by the symmetry rule
ChainMat ==
    [i \in 0..2 |-> [j \in 0..2 |->
        IF i = j THEN 0
        ELSE IF <<i, j>> \in {<<0, 1>>, <<1, 2>>} THEN FATHER
        ELSE IF <<i, j>> \in {<<1, 0>>, <<2, 1>>} THEN CHILD
        ELSE NO_RELATION]]

ChainSearched(t) ==
    pc = "path" /\ ~rel_mat.raised /\ rel_mat.mat = ChainMat /\ t_node = t

Returned(path) == [raised |-> "none", best |-> [none |-> FALSE, path |-> path]]

C3_IndexProvenance ==
    pc = "box_filter" =>
        /\ DOMAIN bf_out.dets = DOMAIN bf_out.idx
        /\ DOMAIN bf_out.scores = DOMAIN bf_out.idx
        /\ \A i \in DOMAIN bf_out.idx :
              /\ bf_out.idx[i] \in DOMAIN bf_in.box
              /\ bf_out.dets[i] = bf_in.box[bf_out.idx[i]]
              /\ bf_out.scores[i] = bf_in.box_scores[bf_out.idx[i]]
        /\ \A i, j \in DOMAIN bf_out.idx : i # j => bf_out.idx[i] # bf_out.idx[j]

\* two boxes come back in an order that differs from the input order, after
\* a lower candidate was dropped by the threshold
C3_Witness ==
    /\ pc = "box_filter"
    /\ ALen(bf_out.idx) = 2
    /\ bf_out.idx[0] = 2
    /\ bf_out.idx[1] = 1
    /\ ALen(bf_in.box) = 3

\* number of score columns of rel_cls_prob
RelCols == IF ALen(rel_cls_prob) = 0 THEN 0 ELSE ALen(rel_cls_prob[0])

\* C4: for num_obj >= 2 and a 3-column score tensor, the returned matrix is
\* symmetric in NO_RELATION, complementary otherwise (entries sum to 3),
\* and every off-diagonal entry is 1, 2 or 3.
C4_RelMatSymmetry ==
    (pc = "rel_mat" /\ num_obj >= 2 /\ RelCols = NumRelCls) =>
        /\ ~rel_mat.raised
        /\ \A i, j \in 0..(num_obj - 1) :
              i # j =>
                /\ rel_mat.mat[i][j] \in {1, 2, 3}
                /\ (rel_mat.mat[i][j] = 3) <=> (rel_mat.mat[j][i] = 3)
                /\ rel_mat.mat[i][j] # 3 => rel_mat.mat[i][j] + rel_mat.mat[j][i] = 3

C4_Witness ==
    /\ pc = "rel_mat"
    /\ num_obj = 3
    /\ RelCols = NumRelCls
    /\ rel_mat.mat[0][1] = 1
    /\ rel_mat.mat[0][2] = 3
    /\ rel_mat.mat[1][2] = 2
    /\ rel_mat.mat[2][1] = 1

\* the candidates that passed the score threshold
PassedThreshold == {c \in DOMAIN bf_in.box_scores : bf_in.box_scores[c] > bf_in.thresh}

Kept == Range(bf_out.idx)

\* C5: with suppression, any two kept candidates overlap at most by the
\* threshold, and every candidate that passed the score threshold but was
\* discarded overlaps, above the threshold, a kept candidate whose score is
\* at least its own.
C5_NmsInvariant ==
    (pc = "box_filter" /\ bf_in.use_nms) =>
        /\ \A i, j \in DOMAIN bf_out.idx :
              i < j => ~IoUAbove(bf_in.box[bf_out.idx[i]], bf_in.box[bf_out.idx[j]],
                                 NmsNum, NmsDen)
        /\ \A c \in PassedThreshold \ Kept :
              \E k \in Kept :
                 /\ bf_in.box_scores[k] >= bf_in.box_scores[c]
                 /\ IoUAbove(bf_in.box[k], bf_in.box[c], NmsNum, NmsDen)

\* two candidates are kept and a third, which passed the threshold, is
\* suppressed
C5_Witness ==
    /\ pc = "box_filter"
    /\ bf_in.use_nms
    /\ ALen(bf_out.idx) = 2
    /\ Cardinality(PassedThreshold) = 3

\* C6: without suppression the returned indices are exactly the positions
\* whose score is strictly above the threshold; when there are none, the
\* three returned arrays are empty.
C6_StrictThreshold ==
    (pc = "box_filter" /\ ~bf_in.use_nms) =>
        /\ Kept = {i \in DOMAIN bf_in.box_scores : bf_in.box_scores[i] > bf_in.thresh}
        /\ \A i \in DOMAIN bf_in.box_scores :
              bf_in.box_scores[i] = bf_in.thresh => i \notin Kept
        /\ PassedThreshold = {} =>
              /\ ALen(bf_out.dets) = 0
              /\ ALen(bf_out.scores) = 0
              /\ ALen(bf_out.idx) = 0

\* one candidate scores exactly the threshold and another one above it
C6_Witness ==
    /\ pc = "box_filter"
    /\ ~bf_in.use_nms
    /\ \E i \in DOMAIN bf_in.box_scores : bf_in.box_scores[i] = bf_in.thresh
    /\ ALen(bf_out.idx) = 1

\* corner x-coordinates are the odd columns, y-coordinates the even ones;
\* an output coordinate is the fraction <<c, scaler>>
CornerInside(row, c) ==
    IF (c - 1) % 2 = 0
    THEN 0 <= row[c][1] /\ row[c][1] < gi_in.im_info[2]
    ELSE 0 <= row[c][1] /\ row[c][1] < gi_in.im_info[1]

\* C7: every grasp grasp_inference returns has its 4 corners inside
\* [0, image_width) x [0, image_height): a grasp with a corner coordinate
\* equal to the width or the height is not in the output.
C7_GraspBoundsRejection ==
    (pc = "grasp" /\ gi_out.raised = "none") =>
        \A i \in DOMAIN gi_out.grasps :
            \A c \in 1..8 : CornerInside(gi_out.grasps[i], c)

\* C8: when an upper-triangle entry to be mirrored is not 1, 2 or 3,
\* rel_prob_to_mat raises and returns no matrix.
C8_InvalidLabelFailsFast ==
    (pc = "rel_mat" /\ num_obj >= 2) =>
        ((\E i, j \in 0..(num_obj - 1) : i < j /\ rel_mat.mat[i][j] \notin {1, 2, 3})
            => rel_mat.raised)

\* position of the pair (i, j), i < j, in the enumeration of n objects
PairIndex(n, i, j) == i * n - ((i * (i + 1)) \div 2) + (j - i - 1)

\* C9: for num_obj >= 2 and i < j, mat[i, j] is argmax + 1 of the score row
\* at the pair's position in the order "for i, for j > i"; every row is
\* used by exactly one pair, and the diagonal stays 0.
C9_PairEnumeration ==
    (pc = "rel_mat" /\ num_obj >= 2) =>
        /\ \A i, j \in 0..(num_obj - 1) :
              i < j => /\ PairIndex(num_obj, i, j) \in DOMAIN rel_cls_prob
                       /\ rel_mat.mat[i][j] =
                            Argmax(rel_cls_prob[PairIndex(num_obj, i, j)]) + 1
        /\ \A k \in DOMAIN rel_cls_prob :
              Cardinality({p \in (0..(num_obj - 1)) \X (0..(num_obj - 1)) :
                              p[1] < p[2] /\ PairIndex(num_obj, p[1], p[2]) = k}) = 1
        /\ \A i \in 0..(num_obj - 1) : rel_mat.mat[i][i] = 0

\* three objects whose three pairs received three different labels
C9_Witness ==
    /\ pc = "rel_mat"
    /\ num_obj = 3
    /\ rel_mat.mat[0][1] = 2
    /\ rel_mat.mat[0][2] = 3
    /\ rel_mat.mat[1][2] = 1

\* highest row index holding a non-zero relation entry
HighestRelated(m) == SetMax({i \in DOMAIN m : \E j \in DOMAIN m[i] : m[i][j] # 0})

\* C10: the tree has the nodes 0..M, M the highest index with a non-zero
\* relation entry, and exactly the edges obj2 -> obj1 for PARENT entries and
\* obj1 -> obj2 for CHILD entries of the lower triangle (obj1 > obj2);
\* NO_RELATION adds no edge and no two nodes are connected both ways.
C10_MrtGraph ==
    (pc = "mrt" /\ mrt.raised = "none") =>
        LET m == rel_mat.mat
            nodes == 0..HighestRelated(m)
        IN  /\ NodeSet(mrt.g) = nodes
            /\ EdgeSet(mrt.g) =
                  {<<p[2], p[1]>> : p \in {q \in nodes \X nodes :
                                              q[1] > q[2] /\ m[q[1]][q[2]] = FATHER}}
                  \cup
                  {<<p[1], p[2]>> : p \in {q \in nodes \X nodes :
                                              q[1] > q[2] /\ m[q[1]][q[2]] = CHILD}}
            /\ \A e \in EdgeSet(mrt.g) : <<e[2], e[1]>> \notin EdgeSet(mrt.g)
            /\ \A i, j \in nodes :
                  m[i][j] = NO_RELATION =>
                     <<i, j>> \notin EdgeSet(mrt.g) /\ <<j, i>> \notin EdgeSet(mrt.g)

\* a tree with an edge from a PARENT entry, one from a CHILD entry and an
\* unrelated pair
C10_Witness ==
    /\ pc = "mrt"
    /\ mrt.raised = "none"
    /\ num_obj = 3
    /\ rel_mat.mat[1][0] = FATHER
    /\ rel_mat.mat[2][1] = CHILD
    /\ rel_mat.mat[2][0] = NO_RELATION
    /\ EdgeSet(mrt.g) = {<<0, 1>>, <<2, 1>>}

\* the nodes left after removing, again and again, every node that has no
\* incoming edge from a node still present: empty exactly for acyclic graphs
RECURSIVE Peel(_, _)
Peel(N, E) ==
    LET free == {n \in N : \A e \in E : e[2] = n => e[1] \notin N}
    IN  IF free = {} THEN N ELSE Peel(N \ free, E)

Acyclic(G) == Peel(NodeSet(G), EdgeSet(G)) = {}

NoIncoming(G, n) == \A e \in EdgeSet(G) : e[2] # n

\* the edge-following paths of G that start at a node without incoming
\* edges and end at t; in an acyclic graph none is longer than the node count
RootPaths(G, t) ==
    {p \in UNION {[1..k -> NodeSet(G)] : k \in 1..Cardinality(NodeSet(G))} :
        /\ p[Len(p)] = t
        /\ NoIncoming(G, p[1])
        /\ \A i \in 1..(Len(p) - 1) : <<p[i], p[i + 1]>> \in EdgeSet(G)}

AcyclicSearch == pc = "path" /\ Acyclic(mrt.g) /\ HasNode(mrt.g, t_node)

C12_RecursionBounded ==
    (pc = "path" /\ RelCols = NumRelCls) =>
        /\ paths.raised \in {"none", "AssertionError"}
        /\ best_path.raised \in {"none", "AssertionError"}

====
